---- MODULE Spec2Model ----
(***************************************************************************)
(* Session registry and worker gateway of the ReOS Tauri shell              *)
(* (apps/reos-tauri/src-tauri/src/auth.rs and main.rs).                     *)
(*                                                                         *)
(* Time is the monotonic clock read by Instant::now(), in seconds.  Strings *)
(* are sequences of Unicode code points, so that String::len (UTF-8 bytes)  *)
(* and chars().take(n) (code points) stay different measures.  Option<T>    *)
(* is a sequence of length 0 (None) or 1 (Some).  JSON values are records   *)
(* of one shape, [kind, bool, str, obj].                                    *)
(***************************************************************************)
EXTENDS Integers, Sequences, FiniteSets, TLC

VARIABLES
    now,            \* the monotonic clock, in seconds
    sessions,       \* SessionStore.sessions: token -> Session
    kernel,         \* KernelState's Option<KernelProcess>: absent, live or dead
    lockHolder,     \* the owner of the KernelState mutex: <<>> or <<p>>
    kernelPoisoned, \* whether the KernelState mutex is poisoned
    storePoisoned,  \* whether the AuthState mutex is poisoned
    pipe,           \* requests written to the worker and not yet answered
    procs,          \* position of each in-progress async command
    ret             \* the outcome of the command that returned last

vars == <<now, sessions, kernel, lockHolder, kernelPoisoned, storePoisoned, pipe, procs, ret>>

----------------------------------------------------------------------------
(* Bounds of the model *)

\* The clock advances MaxTicks times at most.
MaxTicks == 3
\* Lengths, in characters, of the two session tokens the worker hands out.
LongTokenLen == 17
ShortTokenLen == 3

\* Program constants
SESSION_IDLE_TIMEOUT == 15 * 60
MaxUsernameLen == 32
SessionIdLen == 16

\* One step of the clock: half the idle timeout, so that an elapsed time equal
\* to the timeout (not expired) and one beyond it (expired) both occur.
TickStep == SESSION_IDLE_TIMEOUT \div 2

Rep(c, n) == [i \in 1..n |-> c]

\* The async commands in progress.
Procs == {"p1", "p2"}

\* Code points: 97 'a', 98 'b' (one UTF-8 byte each), 233 e-acute (two bytes).
Tokens == {Rep(97, LongTokenLen), Rep(98, ShortTokenLen)}
Users == {<<97>>, <<98>>}
Passwords == {<<112>>}
LoginUsernames ==
    { <<>>, <<97>>,
      Rep(97, MaxUsernameLen), Rep(97, MaxUsernameLen + 1),
      Rep(233, MaxUsernameLen \div 2), Rep(233, MaxUsernameLen \div 2 + 1) }

----------------------------------------------------------------------------
(* Strings *)

\* char::len_utf8
Utf8Width(cp) ==
    IF cp < 128 THEN 1 ELSE IF cp < 2048 THEN 2 ELSE IF cp < 65536 THEN 3 ELSE 4

\* The bytes the first n characters of s take in UTF-8
RECURSIVE Utf8Bytes(_, _)
Utf8Bytes(s, n) == IF n = 0 THEN 0 ELSE Utf8Width(s[n]) + Utf8Bytes(s, n - 1)

\* String::len: the length in bytes of the UTF-8 encoding
StrLen(s) == Utf8Bytes(s, Len(s))

\* s.chars().take(n).collect()
TakeChars(s, n) == SubSeq(s, 1, IF Len(s) < n THEN Len(s) ELSE n)

----------------------------------------------------------------------------
(* serde_json::Value *)

EmptyObj == [k \in {} |-> 0]
JNull == [kind |-> "null", bool |-> FALSE, str |-> <<>>, obj |-> EmptyObj]
JBool(b) == [kind |-> "bool", bool |-> b, str |-> <<>>, obj |-> EmptyObj]
JStr(s) == [kind |-> "string", bool |-> FALSE, str |-> s, obj |-> EmptyObj]
JObj(o) == [kind |-> "object", bool |-> FALSE, str |-> <<>>, obj |-> o]

\* serde_json::Map::insert
MapInsert(o, k, v) == [f \in (DOMAIN o) \cup {k} |-> IF f = k THEN v ELSE o[f]]

----------------------------------------------------------------------------
(* auth.rs: Session and SessionStore *)

\* Instant::elapsed of a stored instant
Elapsed(t) == now - t

\* An expiry test that already fires at the timeout
IsExpiredAtTimeout(s) == Elapsed(s.last_activity) >= SESSION_IDLE_TIMEOUT

\* Session::is_expired
IsExpired(s) == Elapsed(s.last_activity) > SESSION_IDLE_TIMEOUT

\* A refresh that stamps the creation of the session and not its activity
SessionRefreshCreation(s) == [s EXCEPT !.created_at = now]

\* Session::refresh
SessionRefresh(s) == [s EXCEPT !.last_activity = now]

\* create_session
CreateSession(token, username) ==
    [token |-> token, username |-> username, created_at |-> now, last_activity |-> now]

\* An insert that keeps the entry a token already has
StoreInsertIfAbsent(store, s) ==
    [t \in (DOMAIN store) \cup {s.token} |-> IF t \in DOMAIN store THEN store[t] ELSE s]

\* SessionStore::insert
StoreInsert(store, s) ==
    [t \in (DOMAIN store) \cup {s.token} |-> IF t = s.token THEN s ELSE store[t]]

\* get without the expiry filter
StoreGetAnyEntry(store, token) ==
    IF token \in DOMAIN store THEN <<store[token]>> ELSE <<>>

\* SessionStore::get
StoreGet(store, token) ==
    IF token \in DOMAIN store /\ ~IsExpired(store[token]) THEN <<store[token]>> ELSE <<>>

\* get_mut without the expiry filter
StoreGetMutAnyEntry(store, token) ==
    IF token \in DOMAIN store THEN <<store[token]>> ELSE <<>>

\* SessionStore::get_mut: the entry get_mut hands out, if any
StoreGetMut(store, token) ==
    IF token \in DOMAIN store /\ ~IsExpired(store[token]) THEN <<store[token]>> ELSE <<>>

\* A remove that looks the entry up with get, and so passes over an expired one
StoreRemoveLive(store, token) ==
    IF StoreGet(store, token) # <<>>
    THEN << [t \in (DOMAIN store) \ {token} |-> store[t]], TRUE >>
    ELSE << store, FALSE >>

\* SessionStore::remove: <<the store afterwards, whether an entry existed>>
StoreRemove(store, token) ==
    << [t \in (DOMAIN store) \ {token} |-> store[t]], token \in DOMAIN store >>

\* SessionStore::cleanup_expired
StoreCleanupExpired(store) ==
    [t \in {u \in DOMAIN store : ~IsExpired(store[u])} |-> store[t]]

\* validate_session without the expiry filter of get
ValidateSessionAnyEntry(store, token) ==
    IF token \in DOMAIN store
    THEN << [username |-> store[token].username,
             session_id |-> TakeChars(token, SessionIdLen)] >>
    ELSE <<>>

\* validate_session
ValidateSession(store, token) ==
    IF StoreGet(store, token) = <<>>
    THEN <<>>
    ELSE << [username |-> StoreGet(store, token)[1].username,
             session_id |-> TakeChars(token, SessionIdLen)] >>

----------------------------------------------------------------------------
(* auth.rs: AuthResult, and its derived Deserialize *)

AuthFields == {"session_token", "username", "error"}

\* Whether serde_json::from_value::<AuthResult> accepts the value: an object
\* whose success is a bool and whose optional fields are strings or null.
AuthParses(v) ==
    /\ v.kind = "object"
    /\ "success" \in DOMAIN v.obj
    /\ v.obj["success"].kind = "bool"
    /\ \A f \in AuthFields \cap DOMAIN v.obj : v.obj[f].kind \in {"string", "null"}

\* An Option<String> field of the parsed AuthResult
AuthField(v, f) ==
    IF f \in DOMAIN v.obj /\ v.obj[f].kind = "string" THEN <<v.obj[f].str>> ELSE <<>>

\* serde_json::from_value::<AuthResult> of a value AuthParses accepts
ParseAuthResult(v) ==
    [success |-> v.obj["success"].bool,
     session_token |-> AuthField(v, "session_token"),
     username |-> AuthField(v, "username"),
     error |-> AuthField(v, "error")]

\* "Invalid username", as code points
InvalidUsernameMsg ==
    <<73, 110, 118, 97, 108, 105, 100, 32, 117, 115, 101, 114, 110, 97, 109, 101>>

\* The AuthResult auth_login returns for a username of the wrong shape
InvalidUsernameResult ==
    [success |-> FALSE, session_token |-> <<>>, username |-> <<>>,
     error |-> <<InvalidUsernameMsg>>]

\* The derived Serialize of AuthResult: a field that is None is left out.
SerializeAuthResult(a) ==
    JObj([f \in {"success"} \cup {g \in AuthFields : a[g] # <<>>} |->
            IF f = "success" THEN JBool(a.success) ELSE JStr(a[f][1])])

\* The derived Serialize of SessionInfo
SerializeSessionInfo(i) ==
    JObj([username |-> JStr(i.username), session_id |-> JStr(i.session_id)])

----------------------------------------------------------------------------
(* The worker process and the bridge to it (kernel.rs) *)

\* What the worker may answer to auth/login: success with both fields, with
\* one of them missing, failure (with and without a token), and two values
\* that are no AuthResult.
LoginValues ==
    { JObj([success |-> JBool(TRUE), session_token |-> JStr(t), username |-> JStr(u)]) :
        t \in Tokens, u \in Users }
    \cup
    { JObj([success |-> JBool(TRUE), username |-> JStr(<<97>>)]),
      JObj([success |-> JBool(TRUE), session_token |-> JStr(Rep(97, LongTokenLen))]),
      JObj([success |-> JBool(FALSE), error |-> JStr(<<69>>)]),
      JObj([success |-> JBool(FALSE), session_token |-> JStr(Rep(98, ShortTokenLen)),
            username |-> JStr(<<98>>)]),
      JObj([session_token |-> JStr(Rep(98, ShortTokenLen)), username |-> JStr(<<98>>)]),
      JNull }

\* The answers by which sessions come to be and logins fail.
LeanLoginValues ==
    { JObj([success |-> JBool(TRUE), session_token |-> JStr(t), username |-> JStr(<<98>>)]) :
        t \in Tokens }
    \cup { JObj([success |-> JBool(FALSE), error |-> JStr(<<69>>)]) }

\* What the worker may answer to any other method.
OtherValues == {JBool(TRUE)}

\* KernelError kinds a request on a started worker can end with
RequestErrors == {"IoError", "ProtocolError", "WorkerError"}

\* Result<Value, String>
Ok(v) == [ok |-> TRUE, err |-> "", val |-> v]
Err(e) == [ok |-> FALSE, err |-> e, val |-> JNull]

\* KernelProcess::request on a worker that is live and answers with one of
\* values, or that has exited
Replies(k, values) ==
    IF k = "dead"
    THEN {Err("IoError")}
    ELSE {Ok(v) : v \in values} \cup {Err(e) : e \in RequestErrors}

----------------------------------------------------------------------------
(* Commands in progress *)

Idle ==
    [pc |-> "idle", op |-> "", token |-> <<>>, method |-> "", params |-> JNull,
     info |-> <<>>, reply |-> JNull]

\* The outcome a command returns to the front end.
Returned(op, arg, res) == [op |-> op, arg |-> arg, ok |-> res.ok, err |-> res.err, val |-> res.val]

\* The argument that names a command in progress: the session token, or the
\* username sent to auth/login.
ArgOf(pr) == IF pr.op = "auth_login" THEN pr.params.obj["username"].str ELSE pr.token

Init ==
    /\ now = 0
    /\ sessions = [t \in {} |-> 0]
    /\ kernel = "absent"
    /\ lockHolder = <<>>
    /\ kernelPoisoned = FALSE
    /\ storePoisoned = FALSE
    /\ pipe = {}
    /\ procs = [p \in Procs |-> Idle]
    /\ ret = Returned("", <<>>, Ok(JNull))

\* Instant::now() advances.
Tick ==
    /\ now + TickStep <= MaxTicks * TickStep
    /\ now' = now + TickStep
    /\ UNCHANGED <<sessions, kernel, lockHolder, kernelPoisoned, storePoisoned, pipe, procs,
                   ret>>

----------------------------------------------------------------------------
(* main.rs: the session commands *)

\* Every command takes the AuthState mutex by lock().map_err(|_| "lock
\* poisoned")?, and holds it to its end.
AuthLogout(t) ==
    /\ IF storePoisoned
       THEN /\ sessions' = sessions
            /\ ret' = Returned("auth_logout", t, Err("lock poisoned"))
       ELSE /\ sessions' = StoreRemove(sessions, t)[1]
            /\ ret' = Returned("auth_logout", t,
                               IF StoreRemove(sessions, t)[2]
                               THEN Ok(JNull) ELSE Err("Session not found"))
    /\ UNCHANGED <<now, kernel, lockHolder, kernelPoisoned, storePoisoned, pipe, procs>>

\* A validate that bumps the activity of the session it finds
AuthValidateTouching(t) ==
    /\ ret' = Returned("auth_validate", t,
                       IF storePoisoned THEN Err("lock poisoned")
                       ELSE Ok(JBool(StoreGet(sessions, t) # <<>>)))
    /\ sessions' = IF ~storePoisoned /\ StoreGetMut(sessions, t) # <<>>
                   THEN [sessions EXCEPT ![t] = SessionRefresh(@)]
                   ELSE sessions
    /\ UNCHANGED <<now, kernel, lockHolder, kernelPoisoned, storePoisoned, pipe, procs>>

AuthValidate(t) ==
    /\ ret' = Returned("auth_validate", t,
                       IF storePoisoned THEN Err("lock poisoned")
                       ELSE Ok(JBool(StoreGet(sessions, t) # <<>>)))
    /\ UNCHANGED <<now, sessions, kernel, lockHolder, kernelPoisoned, storePoisoned, pipe,
                   procs>>

\* An auth_refresh that takes the store out of a poisoned mutex
AuthRefreshRecovering(t) ==
    /\ IF StoreGetMut(sessions, t) # <<>>
       THEN /\ sessions' = [sessions EXCEPT ![t] = SessionRefresh(@)]
            /\ ret' = Returned("auth_refresh", t, Ok(JNull))
       ELSE /\ sessions' = sessions
            /\ ret' = Returned("auth_refresh", t, Err("Session not found or expired"))
    /\ UNCHANGED <<now, kernel, lockHolder, kernelPoisoned, storePoisoned, pipe, procs>>

AuthRefresh(t) ==
    /\ IF storePoisoned
       THEN /\ sessions' = sessions
            /\ ret' = Returned("auth_refresh", t, Err("lock poisoned"))
       ELSE IF StoreGetMut(sessions, t) # <<>>
       THEN /\ sessions' = [sessions EXCEPT ![t] = SessionRefresh(@)]
            /\ ret' = Returned("auth_refresh", t, Ok(JNull))
       ELSE /\ sessions' = sessions
            /\ ret' = Returned("auth_refresh", t, Err("Session not found or expired"))
    /\ UNCHANGED <<now, kernel, lockHolder, kernelPoisoned, storePoisoned, pipe, procs>>

\* An auth_get_session that first waits for the KernelState mutex
AuthGetSessionBehindWorker(t) ==
    /\ lockHolder = <<>>
    /\ ret' = Returned("auth_get_session", t,
                       IF storePoisoned THEN Err("lock poisoned")
                       ELSE IF ValidateSession(sessions, t) # <<>>
                       THEN Ok(SerializeSessionInfo(ValidateSession(sessions, t)[1]))
                       ELSE Err("Session not found"))
    /\ UNCHANGED <<now, sessions, kernel, lockHolder, kernelPoisoned, storePoisoned, pipe,
                   procs>>

AuthGetSession(t) ==
    /\ ret' = Returned("auth_get_session", t,
                       IF storePoisoned THEN Err("lock poisoned")
                       ELSE IF ValidateSession(sessions, t) # <<>>
                       THEN Ok(SerializeSessionInfo(ValidateSession(sessions, t)[1]))
                       ELSE Err("Session not found"))
    /\ UNCHANGED <<now, sessions, kernel, lockHolder, kernelPoisoned, storePoisoned, pipe,
                   procs>>

\* The maintenance duty that sweeps the store, which its caller has locked.
CleanupExpired ==
    /\ ~storePoisoned
    /\ sessions' = StoreCleanupExpired(sessions)
    /\ ret' = Returned("cleanup_expired", <<>>, Ok(JNull))
    /\ UNCHANGED <<now, kernel, lockHolder, kernelPoisoned, storePoisoned, pipe, procs>>

----------------------------------------------------------------------------
(* main.rs: kernel_start *)

\* A kernel_start that starts a worker anew when the one of the handle has exited
KernelStartRespawning(started) ==
    /\ lockHolder = <<>>
    /\ IF kernelPoisoned
       THEN /\ ret' = Returned("kernel_start", <<>>, Err("lock poisoned"))
            /\ kernel' = kernel
       ELSE IF kernel = "live"
       THEN /\ ret' = Returned("kernel_start", <<>>, Ok(JNull))
            /\ kernel' = kernel
       ELSE IF started
       THEN /\ ret' = Returned("kernel_start", <<>>, Ok(JNull))
            /\ kernel' = "live"
       ELSE /\ ret' = Returned("kernel_start", <<>>, Err("SpawnFailed"))
            /\ kernel' = kernel
    /\ UNCHANGED <<now, sessions, lockHolder, kernelPoisoned, storePoisoned, pipe, procs>>

\* started: whether KernelProcess::start succeeds, should it be called.
KernelStart(started) ==
    /\ lockHolder = <<>>
    /\ IF kernelPoisoned
       THEN /\ ret' = Returned("kernel_start", <<>>, Err("lock poisoned"))
            /\ kernel' = kernel
       ELSE IF kernel # "absent"
       THEN /\ ret' = Returned("kernel_start", <<>>, Ok(JNull))
            /\ kernel' = kernel
       ELSE IF started
       THEN /\ ret' = Returned("kernel_start", <<>>, Ok(JNull))
            /\ kernel' = "live"
       ELSE /\ ret' = Returned("kernel_start", <<>>, Err("SpawnFailed"))
            /\ kernel' = kernel
    /\ UNCHANGED <<now, sessions, lockHolder, kernelPoisoned, storePoisoned, pipe, procs>>

----------------------------------------------------------------------------
(* main.rs: the closure auth_login and kernel_request hand to spawn_blocking *)

\* The command of p returns res: its slot is free again.
Finish(p, res) ==
    /\ ret' = Returned(procs[p].op, ArgOf(procs[p]), res)
    /\ procs' = [procs EXCEPT ![p] = Idle]

\* A closure that goes on without waiting for the holder of the mutex
TaskLockNoWait(p) ==
    /\ procs[p].pc = "spawned"
    /\ lockHolder' = <<p>>
    /\ procs' = [procs EXCEPT ![p].pc = "locked"]
    /\ UNCHANGED <<now, sessions, kernel, kernelPoisoned, storePoisoned, pipe, ret>>

\* state.lock(): waits while another holder has the mutex.
TaskLock(p) ==
    /\ procs[p].pc = "spawned"
    /\ lockHolder = <<>>
    /\ IF kernelPoisoned
       THEN /\ Finish(p, Err("lock poisoned"))
            /\ lockHolder' = lockHolder
       ELSE /\ lockHolder' = <<p>>
            /\ procs' = [procs EXCEPT ![p].pc = "locked"]
            /\ ret' = ret
    /\ UNCHANGED <<now, sessions, kernel, kernelPoisoned, storePoisoned, pipe>>

\* A closure that starts a worker without looking at the handle
TaskStartUnchecked(p, started) ==
    /\ procs[p].pc = "locked"
    /\ IF started
       THEN /\ kernel' = "live"
            /\ procs' = [procs EXCEPT ![p].pc = "ready"]
            /\ UNCHANGED <<lockHolder, ret>>
       ELSE /\ Finish(p, Err("SpawnFailed"))
            /\ lockHolder' = <<>>
            /\ kernel' = kernel
    /\ UNCHANGED <<now, sessions, kernelPoisoned, storePoisoned, pipe>>

\* if guard.is_none() { KernelProcess::start()? }
TaskStart(p, started) ==
    /\ procs[p].pc = "locked"
    /\ IF kernel # "absent"
       THEN /\ procs' = [procs EXCEPT ![p].pc = "ready"]
            /\ UNCHANGED <<kernel, lockHolder, ret>>
       ELSE IF started
       THEN /\ kernel' = "live"
            /\ procs' = [procs EXCEPT ![p].pc = "ready"]
            /\ UNCHANGED <<lockHolder, ret>>
       ELSE /\ Finish(p, Err("SpawnFailed"))
            /\ lockHolder' = <<>>
            /\ kernel' = kernel
    /\ UNCHANGED <<now, sessions, kernelPoisoned, storePoisoned, pipe>>

\* proc.request: the request is written to the worker's input.
TaskWrite(p) ==
    /\ procs[p].pc = "ready"
    /\ IF kernel = "dead"
       THEN /\ Finish(p, Err("IoError"))
            /\ lockHolder' = <<>>
            /\ pipe' = pipe
       ELSE /\ pipe' = pipe \cup {[by |-> p, method |-> procs[p].method,
                                   params |-> procs[p].params]}
            /\ procs' = [procs EXCEPT ![p].pc = "inflight"]
            /\ UNCHANGED <<lockHolder, ret>>
    /\ UNCHANGED <<now, sessions, kernel, kernelPoisoned, storePoisoned>>

\* proc.request: the response is read, or the read fails; the guard is dropped.
\* kernel_request returns the outcome as it is; auth_login goes on with a value.
TaskRead(p, reply) ==
    /\ procs[p].pc = "inflight"
    /\ pipe' = {r \in pipe : r.by # p}
    /\ lockHolder' = <<>>
    /\ IF procs[p].op = "auth_login" /\ reply.ok
       THEN /\ procs' = [procs EXCEPT ![p].pc = "joined", ![p].reply = reply.val]
            /\ ret' = ret
       ELSE Finish(p, reply)
    /\ UNCHANGED <<now, sessions, kernel, kernelPoisoned, storePoisoned>>

\* The closure panics inside the bridge: the guard is dropped during the
\* unwinding, which poisons the mutex, and the command gets a join error.
TaskPanic(p) ==
    /\ procs[p].pc = "inflight"
    /\ kernelPoisoned' = TRUE
    /\ lockHolder' = <<>>
    /\ Finish(p, Err(procs[p].op \o " join error"))
    /\ UNCHANGED <<now, sessions, kernel, pipe, storePoisoned>>

\* A context panics while it holds the AuthState mutex: the mutex is poisoned.
StorePanic ==
    /\ ~storePoisoned
    /\ storePoisoned' = TRUE
    /\ UNCHANGED <<now, sessions, kernel, lockHolder, kernelPoisoned, pipe, procs, ret>>

\* The worker process exits.
WorkerDies ==
    /\ kernel = "live"
    /\ kernel' = "dead"
    /\ UNCHANGED <<now, sessions, lockHolder, kernelPoisoned, storePoisoned, pipe, procs, ret>>

----------------------------------------------------------------------------
(* main.rs: auth_login *)

\* The shape check with the length counted in characters
UsernameShapeOkChars(username) == ~(username = <<>> \/ Len(username) > MaxUsernameLen)

\* The username check at the head of auth_login; len() counts UTF-8 bytes.
UsernameShapeOk(username) == ~(username = <<>> \/ StrLen(username) > MaxUsernameLen)

AuthLoginCall(p, username, password) ==
    /\ procs[p].pc = "idle"
    /\ IF ~UsernameShapeOk(username)
       THEN /\ ret' = Returned("auth_login", username,
                               Ok(SerializeAuthResult(InvalidUsernameResult)))
            /\ procs' = procs
       ELSE /\ procs' = [procs EXCEPT ![p] =
                           [Idle EXCEPT !.pc = "spawned", !.op = "auth_login",
                                        !.method = "auth/login",
                                        !.params = JObj([username |-> JStr(username),
                                                         password |-> JStr(password)])]]
            /\ ret' = ret
    /\ UNCHANGED <<now, sessions, kernel, lockHolder, kernelPoisoned, storePoisoned, pipe>>

\* A store condition that does not look at success
StoresSessionAnyToken(a) == a.session_token # <<>> /\ a.username # <<>>

\* Whether auth_login stores a session for the parsed result
StoresSession(a) == a.success /\ a.session_token # <<>> /\ a.username # <<>>

\* After the await: parse the response, store the session, return.
AuthLoginFinish(p) ==
    /\ procs[p].pc = "joined"
    /\ IF ~AuthParses(procs[p].reply)
       THEN /\ Finish(p, Err("Failed to parse auth response"))
            /\ sessions' = sessions
       ELSE IF StoresSession(ParseAuthResult(procs[p].reply)) /\ storePoisoned
       THEN /\ Finish(p, Err("lock poisoned"))
            /\ sessions' = sessions
       ELSE /\ Finish(p, Ok(SerializeAuthResult(ParseAuthResult(procs[p].reply))))
            /\ sessions' =
                 IF StoresSession(ParseAuthResult(procs[p].reply))
                 THEN StoreInsert(sessions,
                                  CreateSession(ParseAuthResult(procs[p].reply).session_token[1],
                                                ParseAuthResult(procs[p].reply).username[1]))
                 ELSE sessions
    /\ UNCHANGED <<now, kernel, lockHolder, kernelPoisoned, storePoisoned, pipe>>

----------------------------------------------------------------------------
(* main.rs: kernel_request *)

\* An injection that leaves a __session of the caller in place
EnrichKeepingCaller(params, info) ==
    JObj(IF params.kind = "object" /\ "__session" \in DOMAIN params.obj
         THEN params.obj
         ELSE MapInsert(IF params.kind = "object" THEN params.obj
                        ELSE IF params.kind = "null" THEN EmptyObj
                        ELSE [value |-> params],
                        "__session", SerializeSessionInfo(info)))

\* The normalisation of the caller's params and the injection of __session
Enrich(params, info) ==
    JObj(MapInsert(IF params.kind = "object" THEN params.obj
                   ELSE IF params.kind = "null" THEN EmptyObj
                   ELSE [value |-> params],
                   "__session", SerializeSessionInfo(info)))

\* First critical section: validate the token.
KernelRequestCall(p, token, method, params) ==
    /\ procs[p].pc = "idle"
    /\ IF storePoisoned
       THEN /\ ret' = Returned("kernel_request", token, Err("lock poisoned"))
            /\ procs' = procs
       ELSE IF ValidateSession(sessions, token) = <<>>
       THEN /\ ret' = Returned("kernel_request", token, Err("Invalid or expired session"))
            /\ procs' = procs
       ELSE /\ procs' = [procs EXCEPT ![p] =
                           [Idle EXCEPT !.pc = "validated", !.op = "kernel_request",
                                        !.token = token, !.method = method,
                                        !.params = params,
                                        !.info = ValidateSession(sessions, token)]]
            /\ ret' = ret
    /\ UNCHANGED <<now, sessions, kernel, lockHolder, kernelPoisoned, storePoisoned, pipe>>

\* Second critical section: refresh the session if it still resolves; then
\* the params are enriched and the closure is handed to spawn_blocking.
KernelRequestRefresh(p) ==
    /\ procs[p].pc = "validated"
    /\ IF storePoisoned
       THEN /\ Finish(p, Err("lock poisoned"))
            /\ sessions' = sessions
       ELSE /\ sessions' = IF StoreGetMut(sessions, procs[p].token) # <<>>
                           THEN [sessions EXCEPT ![procs[p].token] = SessionRefresh(@)]
                           ELSE sessions
            /\ procs' = [procs EXCEPT ![p].pc = "spawned",
                                      ![p].params = Enrich(procs[p].params, procs[p].info[1])]
            /\ ret' = ret
    /\ UNCHANGED <<now, kernel, lockHolder, kernelPoisoned, storePoisoned, pipe>>

----------------------------------------------------------------------------

Methods == {"echo"}
\* The params a caller may pass: null, an object, an object that brings a
\* __session of its own, and a value that is neither.
Params ==
    {JNull,
     JObj([x |-> JBool(TRUE)]),
     JObj(MapInsert([y |-> JBool(FALSE)], "__session", JStr(<<97>>))),
     JBool(TRUE)}

\* The session commands, which run to completion under the SessionStore lock.
SessionCmds ==
    \/ \E t \in Tokens : AuthLogout(t)
    \/ \E t \in Tokens : AuthValidate(t)
    \/ \E t \in Tokens : AuthRefresh(t)
    \/ \E t \in Tokens : AuthGetSession(t)
    \/ CleanupExpired

\* auth_login by the callers P with the usernames LU
LoginCmds(P, LU) ==
    \/ \E p \in P, u \in LU, pw \in Passwords : AuthLoginCall(p, u, pw)
    \/ \E p \in P : AuthLoginFinish(p)

\* kernel_request by the callers P with the params PAR
RequestCmds(P, PAR) ==
    \/ \E p \in P, t \in Tokens, m \in Methods, par \in PAR : KernelRequestCall(p, t, m, par)
    \/ \E p \in P : KernelRequestRefresh(p)

\* The blocking closures of the callers P; the worker answers auth/login with
\* one of LV.
TaskSteps(P, LV) ==
    \/ \E p \in P : TaskLock(p)
    \/ \E p \in P, started \in BOOLEAN : TaskStart(p, started)
    \/ \E p \in P : TaskWrite(p)
    \/ \E p \in P :
         \E reply \in Replies(kernel, IF procs[p].method = "auth/login" THEN LV ELSE OtherValues) :
            TaskRead(p, reply)

KernelCmds == \E started \in BOOLEAN : KernelStart(started)

Faults(P) ==
    \/ \E p \in P : TaskPanic(p)
    \/ WorkerDies

\* The command surface with a worker that stays up: every session command,
\* kernel_start, and one auth_login or kernel_request at a time.
Next ==
    \/ Tick
    \/ SessionCmds
    \/ KernelCmds
    \/ LoginCmds({"p1"}, {<<97>>})
    \/ RequestCmds({"p1"}, {JNull})
    \/ TaskSteps({"p1"}, LeanLoginValues)

Spec == Init /\ [][Next]_vars

\* auth_login with every username shape and every worker answer, a worker
\* that may exit and a bridge that may panic.
NextLogin ==
    \/ Tick
    \/ \E t \in Tokens : AuthLogout(t)
    \/ KernelCmds
    \/ LoginCmds({"p1"}, LoginUsernames)
    \/ TaskSteps({"p1"}, LoginValues)
    \/ Faults({"p1"})

SpecLogin == Init /\ [][NextLogin]_vars

\* Concurrent auth_login, kernel_request and kernel_start on one worker that
\* may exit and a bridge that may panic, while sessions come and go.
NextConc ==
    \/ \E t \in Tokens : AuthLogout(t)
    \/ KernelCmds
    \/ LoginCmds(Procs, {<<97>>})
    \/ RequestCmds(Procs, {JNull})
    \/ TaskSteps(Procs, LeanLoginValues)
    \/ Faults(Procs)

SpecConc == Init /\ [][NextConc]_vars

\* kernel_request with every shape of params, by two callers, on the sessions
\* that logins create and logouts remove.
NextRequest ==
    \/ \E t \in Tokens : AuthLogout(t)
    \/ LoginCmds({"p1"}, {<<97>>})
    \/ RequestCmds(Procs, Params)
    \/ TaskSteps(Procs, LeanLoginValues)

SpecRequest == Init /\ [][NextRequest]_vars

\* Time passes while two kernel_requests, auth_refresh, auth_logout and the
\* logins that create the sessions interleave.
NextActivity ==
    \/ Tick
    \/ \E t \in Tokens : AuthRefresh(t)
    \/ \E t \in Tokens : AuthLogout(t)
    \/ LoginCmds({"p1"}, {<<97>>})
    \/ RequestCmds(Procs, {JNull})
    \/ TaskSteps(Procs, LeanLoginValues)

SpecActivity == Init /\ [][NextActivity]_vars

\* The holders of the two locks may panic
LockFaults(P) ==
    \/ \E p \in P : TaskPanic(p)
    \/ StorePanic

\* The command surface, one auth_login or kernel_request at a time, with
\* holders of either lock that may panic.
NextPoison ==
    \/ \E t \in Tokens : AuthLogout(t)
    \/ \E t \in Tokens : AuthValidate(t)
    \/ \E t \in Tokens : AuthRefresh(t)
    \/ \E t \in Tokens : AuthGetSession(t)
    \/ KernelCmds
    \/ LoginCmds({"p1"}, {<<97>>})
    \/ RequestCmds({"p1"}, {JNull})
    \/ TaskSteps({"p1"}, LeanLoginValues)
    \/ LockFaults({"p1"})

SpecPoison == Init /\ [][NextPoison]_vars

----------------------------------------------------------------------------
(* Vocabulary of the properties, stated on the state alone *)

\* The map holds an entry for t.
Present(t) == t \in DOMAIN sessions

\* The entry of t is past the idle timeout.
Stale(t) == Present(t) /\ now - sessions[t].last_activity > SESSION_IDLE_TIMEOUT

\* The token resolves: present and not expired.
Resolves(t) == Present(t) /\ ~Stale(t)

\* Nothing of the worker side changes in the step.
WorkerUntouched == UNCHANGED <<kernel, lockHolder, kernelPoisoned, pipe>>

----------------------------------------------------------------------------
(* C1 *)

\* C1: a kernel_request whose token does not resolve (absent, or present but
\* expired) fails with "Invalid or expired session", and the step changes
\* nothing else: no request is written, the worker lock is not taken, no
\* worker is started, the store is as before, and the caller has no closure
\* left to run.
C1_UnresolvedRequestRejected ==
    [][\A p \in Procs, t \in Tokens, m \in Methods, par \in Params :
          (KernelRequestCall(p, t, m, par) /\ ~Resolves(t)) =>
             /\ ret' = Returned("kernel_request", t, Err("Invalid or expired session"))
             /\ WorkerUntouched
             /\ sessions' = sessions
             /\ procs' = procs]_vars

\* A request was rejected for a token whose expired entry is still stored.
C1_Witness ==
    /\ ret.op = "kernel_request"
    /\ ret.err = "Invalid or expired session"
    /\ Stale(ret.arg)
    /\ pipe = {}
    /\ lockHolder = <<>>

----------------------------------------------------------------------------
(* C2 *)

\* The closures that are inside the critical section of the worker lock.
InCritical == {p \in Procs : procs[p].pc \in {"locked", "ready", "inflight"}}

\* C2: under any interleaving of auth_login, kernel_request and kernel_start,
\* at most one request is written to the worker and not yet answered, and
\* every closure between lock() and the end of request() is the one holder
\* of the worker lock.
C2_SingleFlight ==
    /\ Cardinality(pipe) <= 1
    /\ Cardinality(InCritical) <= 1
    /\ \A p \in InCritical : lockHolder = <<p>>
    /\ \A r \in pipe : procs[r.by].pc = "inflight" \/ kernelPoisoned

\* An auth_login is in flight while a kernel_request waits for the lock.
C2_Witness ==
    \E p, q \in Procs :
        /\ procs[p].pc = "inflight" /\ procs[p].op = "auth_login"
        /\ procs[q].pc = "spawned" /\ procs[q].op = "kernel_request"
        /\ Cardinality(pipe) = 1

----------------------------------------------------------------------------
(* C3 *)

\* C3: while an expired entry is still stored, auth_validate answers false,
\* auth_get_session and auth_refresh fail, kernel_request is rejected and the
\* refresh step of a kernel_request validated earlier finds nothing; none of
\* them changes the store.  The entry leaves the map only by auth_logout of
\* its token or by cleanup_expired.
C3_LazyExpiry ==
    [][\A t \in Tokens : Stale(t) =>
          /\ AuthValidate(t) =>
                ret' = Returned("auth_validate", t, Ok(JBool(FALSE))) /\ sessions' = sessions
          /\ AuthGetSession(t) =>
                ret' = Returned("auth_get_session", t, Err("Session not found"))
                /\ sessions' = sessions
          /\ AuthRefresh(t) =>
                ret' = Returned("auth_refresh", t, Err("Session not found or expired"))
                /\ sessions' = sessions
          /\ \A p \in Procs :
                /\ (\E m \in Methods, par \in Params : KernelRequestCall(p, t, m, par)) =>
                      ret' = Returned("kernel_request", t, Err("Invalid or expired session"))
                      /\ sessions' = sessions /\ procs' = procs
                /\ (procs[p].token = t /\ KernelRequestRefresh(p)) => sessions' = sessions
          /\ ~Present(t)' => (AuthLogout(t) \/ CleanupExpired)]_vars

\* auth_validate answered false for a token whose expired entry is stored.
C3_Witness ==
    /\ ret = Returned("auth_validate", ret.arg, Ok(JBool(FALSE)))
    /\ Stale(ret.arg)

----------------------------------------------------------------------------
(* C4 *)

\* The answer {success: true, session_token: t, username: u}
SuccessValue(t, u) ==
    JObj([success |-> JBool(TRUE), session_token |-> JStr(t), username |-> JStr(u)])

\* The auth_login of p, holding the worker's answer, returns in this step.
LoginReturns(p) ==
    procs[p].op = "auth_login" /\ procs[p].pc = "joined" /\ procs'[p].pc = "idle"

\* C4: when auth_login returns on the answer {success: true, session_token:
\* t, username: u}, the map afterwards holds for t the session [t, u,
\* created_at = last_activity = the time of the insertion], whatever it held
\* for t before, every other entry is as before, and t resolves.
C4_LoginStoresSession ==
    [][\A p \in Procs, t \in Tokens, u \in Users :
          (LoginReturns(p) /\ procs[p].reply = SuccessValue(t, u)) =>
             /\ DOMAIN sessions' = (DOMAIN sessions) \cup {t}
             /\ sessions'[t] = [token |-> t, username |-> u,
                                created_at |-> now', last_activity |-> now']
             /\ \A o \in (DOMAIN sessions) \ {t} : sessions'[o] = sessions[o]
             /\ Resolves(t)'
             /\ ret' = Returned("auth_login", ArgOf(procs[p]), Ok(SuccessValue(t, u)))]_vars

\* A login returned success and its token resolves to the worker's username,
\* which is not the username the caller logged in with, in a session created
\* at the present time.
C4_Witness ==
    /\ ret.op = "auth_login" /\ ret.ok
    /\ \E t \in Tokens, u \in Users :
          /\ ret.val = SuccessValue(t, u)
          /\ u # ret.arg
          /\ Resolves(t)
          /\ sessions[t].username = u
          /\ sessions[t].created_at = now /\ now > 0

----------------------------------------------------------------------------
(* C5 *)

\* A step of the auth_login of p.
LoginMoves(p) ==
    procs'[p] # procs[p] /\ "auth_login" \in {procs[p].op, procs'[p].op}

\* The auth_login of p holds a worker answer whose success is true.
SuccessAnswer(p) ==
    /\ procs[p].pc = "joined"
    /\ procs[p].reply.kind = "object"
    /\ "success" \in DOMAIN procs[p].reply.obj
    /\ procs[p].reply.obj["success"] = JBool(TRUE)

\* C5: no step of an auth_login changes the store, except its return on a
\* worker answer with success = true: not the rejection of the username, not
\* a poisoned worker lock, a failed spawn, a transport error or a panic in
\* the bridge, not an answer that does not parse or that says success = false.
C5_LoginFailureKeepsStore ==
    [][/\ \A p \in Procs : (LoginMoves(p) /\ ~SuccessAnswer(p)) => sessions' = sessions
       /\ (ret' # ret /\ ret'.op = "auth_login" /\ procs' = procs) => sessions' = sessions]_vars

\* A login returned the worker's failure, which named a token and a username,
\* and the store has no entry for that token.
C5_Witness ==
    /\ ret.op = "auth_login" /\ ret.ok
    /\ ret.val.kind = "object"
    /\ ret.val.obj["success"] = JBool(FALSE)
    /\ "session_token" \in DOMAIN ret.val.obj
    /\ ~Present(ret.val.obj["session_token"].str)

----------------------------------------------------------------------------
(* C6 *)

\* What auth_login returns for a username of the wrong shape.
InvalidUsernameValue == JObj([success |-> JBool(FALSE), error |-> JStr(InvalidUsernameMsg)])

\* What every call of auth_login by p with the username u leaves behind: a
\* closure for the background thread, or a returned outcome.  (It holds of
\* every AuthLoginCall step, and is stated first because it is decided faster.)
LoginCallTrace(p, u) ==
    procs'[p].pc = "spawned" \/ (ret'.op = "auth_login" /\ ret'.arg = u)

\* auth_login on a username whose length, taken by the measure Length, is 0
\* or above 32 returns the "Invalid username" result and touches neither the
\* worker lock, the handle, the pipe nor the store; on any other username it
\* hands ("auth/login", {username, password}) to the bridge.  A login request
\* written to the worker carries a username of length 1 to 32.
UsernameShapeClaim(Length(_)) ==
    /\ \A p \in Procs, u \in LoginUsernames, pw \in Passwords :
          (LoginCallTrace(p, u) /\ AuthLoginCall(p, u, pw)) =>
             IF Length(u) = 0 \/ Length(u) > MaxUsernameLen
             THEN /\ ret' = Returned("auth_login", u, Ok(InvalidUsernameValue))
                  /\ WorkerUntouched
                  /\ sessions' = sessions
                  /\ procs' = procs
             ELSE /\ procs'[p].pc = "spawned"
                  /\ procs'[p].method = "auth/login"
                  /\ procs'[p].params = JObj([username |-> JStr(u), password |-> JStr(pw)])
                  /\ WorkerUntouched
                  /\ sessions' = sessions
    /\ \A r \in pipe' \ pipe :
          r.method = "auth/login" =>
             /\ r.params = procs[r.by].params
             /\ Length(r.params.obj["username"].str) \in 1..MaxUsernameLen

\* C6, as amended: the claim with the length of the username counted in
\* bytes of its UTF-8 encoding.
C6_UsernameShapeInBytes == [][UsernameShapeClaim(StrLen)]_vars

\* C6, as stated: the claim with the length of the username counted in
\* characters.
C6_UsernameShapeInChars == [][UsernameShapeClaim(Len)]_vars

\* A username of at most 32 characters was rejected.
C6_Witness ==
    /\ ret = Returned("auth_login", ret.arg, Ok(InvalidUsernameValue))
    /\ Len(ret.arg) \in 1..MaxUsernameLen
    /\ StrLen(ret.arg) > MaxUsernameLen

----------------------------------------------------------------------------
(* C7 *)

\* Nothing but the returned outcome changes in the step.
OnlyReturns == WorkerUntouched /\ UNCHANGED <<now, sessions, storePoisoned, procs>>

\* C7: auth_validate answers true exactly when the token is present and not
\* expired, and changes nothing: the store, and with it every last_activity,
\* is as before.
C7_ValidateIsAProbe ==
    [][\A t \in Tokens :
          AuthValidate(t) =>
             /\ ret' = Returned("auth_validate", t, Ok(JBool(Resolves(t))))
             /\ OnlyReturns]_vars

\* auth_validate answered true for a session that has been idle for a while.
C7_Witness ==
    /\ ret = Returned("auth_validate", ret.arg, Ok(JBool(TRUE)))
    /\ Resolves(ret.arg)
    /\ sessions[ret.arg].last_activity < now

----------------------------------------------------------------------------
(* C8 *)

\* C8: auth_refresh succeeds exactly when the token is present and not
\* expired, and then sets last_activity of that session to the current time
\* and changes nothing else; otherwise it fails with "Session not found or
\* expired" and the store is as before.
C8_RefreshBumpsOrFails ==
    [][\A t \in Tokens :
          AuthRefresh(t) =>
             /\ WorkerUntouched /\ UNCHANGED <<now, procs>>
             /\ IF Resolves(t)
                THEN /\ ret' = Returned("auth_refresh", t, Ok(JNull))
                     /\ DOMAIN sessions' = DOMAIN sessions
                     /\ sessions'[t] = [token |-> sessions[t].token,
                                        username |-> sessions[t].username,
                                        created_at |-> sessions[t].created_at,
                                        last_activity |-> now]
                     /\ \A o \in (DOMAIN sessions) \ {t} : sessions'[o] = sessions[o]
                ELSE /\ ret' = Returned("auth_refresh", t, Err("Session not found or expired"))
                     /\ sessions' = sessions]_vars

\* auth_refresh succeeded on a session created earlier.
C8_Witness ==
    /\ ret = Returned("auth_refresh", ret.arg, Ok(JNull))
    /\ Present(ret.arg)
    /\ sessions[ret.arg].last_activity = now
    /\ sessions[ret.arg].created_at < now

----------------------------------------------------------------------------
(* C9 *)

\* The auth_login of p returns on an answer that names the token t.
LoginReturnsToken(p, t) ==
    /\ LoginReturns(p)
    /\ procs[p].reply.kind = "object"
    /\ "session_token" \in DOMAIN procs[p].reply.obj
    /\ procs[p].reply.obj["session_token"] = JStr(t)

\* C9: auth_logout returns ok exactly when the map holds an entry for the
\* token, expired or not, and then removes that entry and no other; otherwise
\* it fails with "Session not found" and the store is as before.  While the
\* map has no entry for a token, auth_validate answers false and auth_logout
\* fails, and only the return of an auth_login brings the token back.
C9_LogoutRemovesEntry ==
    [][\A t \in Tokens :
          /\ AuthLogout(t) =>
                /\ WorkerUntouched /\ UNCHANGED <<now, procs>>
                /\ DOMAIN sessions' = (DOMAIN sessions) \ {t}
                /\ \A o \in DOMAIN sessions' : sessions'[o] = sessions[o]
                /\ ret' = Returned("auth_logout", t,
                                   IF Present(t) THEN Ok(JNull) ELSE Err("Session not found"))
          /\ (~Present(t) /\ AuthValidate(t)) =>
                ret' = Returned("auth_validate", t, Ok(JBool(FALSE)))
          /\ (~Present(t) /\ Present(t)') => \E p \in Procs : LoginReturnsToken(p, t)]_vars

\* auth_logout returned ok, its token has no entry and another session is
\* still stored.
C9_Witness ==
    /\ ret = Returned("auth_logout", ret.arg, Ok(JNull))
    /\ ~Present(ret.arg)
    /\ DOMAIN sessions # {}

----------------------------------------------------------------------------
(* C10 *)

\* C10: cleanup_expired leaves in the map exactly the entries that are not
\* expired at the time of the call, each as it was.
C10_CleanupRemovesExpired ==
    [][CleanupExpired =>
          /\ DOMAIN sessions' = {t \in DOMAIN sessions : ~Stale(t)}
          /\ \A t \in DOMAIN sessions' : sessions'[t] = sessions[t]
          /\ WorkerUntouched /\ UNCHANGED <<now, procs>>]_vars

\* After a sweep the map holds only a session idle for exactly the timeout.
C10_Witness ==
    /\ ret.op = "cleanup_expired"
    /\ \E t \in Tokens :
          /\ DOMAIN sessions = {t}
          /\ now - sessions[t].last_activity = SESSION_IDLE_TIMEOUT

----------------------------------------------------------------------------
(* C11 *)

\* The closure of p runs the absent-check of the handle in this step.
ChecksHandle(p) == procs[p].pc = "locked" /\ procs'[p] # procs[p]

\* C11: kernel_start on a handle that exists returns ok and changes nothing.
\* A handle comes to be only from no handle, either in a kernel_start that
\* found the worker lock free or in the absent-check of the closure that
\* holds the worker lock, and that closure then goes on under the same hold
\* of the lock.  A handle that exists is never dropped and no worker is
\* started for it again: it changes only in that its worker exits.
C11_LazyStartRaceFree ==
    [][/\ \A started \in BOOLEAN :
             (KernelStart(started) /\ kernel # "absent" /\ ~kernelPoisoned) =>
                /\ ret' = Returned("kernel_start", <<>>, Ok(JNull))
                /\ OnlyReturns
       /\ (kernel = "absent" /\ kernel' # "absent") =>
             /\ kernel' = "live"
             /\ \/ lockHolder = <<>> /\ lockHolder' = <<>> /\ ret'.op = "kernel_start"
                \/ \E p \in Procs :
                      /\ ChecksHandle(p)
                      /\ lockHolder = <<p>> /\ lockHolder' = <<p>>
                      /\ procs'[p].pc = "ready"
       /\ (kernel # "absent" /\ kernel' # kernel) => (kernel = "live" /\ kernel' = "dead")
       /\ \A p \in Procs :
             (ChecksHandle(p) /\ kernel # "absent") =>
                kernel' = kernel /\ procs'[p].pc = "ready" /\ lockHolder' = <<p>>]_vars

\* kernel_start returned ok, then a closure found the handle under the lock
\* and another waits for the lock, after the worker of the handle has exited.
C11_Witness ==
    /\ ret = Returned("kernel_start", <<>>, Ok(JNull))
    /\ kernel = "dead"
    /\ \E p, q \in Procs :
          /\ procs[p].pc = "ready" /\ lockHolder = <<p>>
          /\ procs[q].pc = "spawned"

----------------------------------------------------------------------------
(* C12 *)

\* The KernelError kinds of the bridge itself, as opposed to an error the
\* worker reports
TransportErrors == {"NotStarted", "SpawnFailed", "IoError", "ProtocolError"}

\* The last command to return failed with a transport error.
TransportFailure == ~ret.ok /\ ret.err \in TransportErrors

\* C12, as stated: after a call has failed with a transport error, a retry of
\* kernel_start, or the lazy start of the next auth_login or kernel_request,
\* for which the launch of a worker would succeed, leaves a live worker behind
\* the handle.
C12_RetryRespawns ==
    [][TransportFailure =>
          /\ (KernelStart(TRUE) /\ ~kernelPoisoned) => kernel' = "live"
          /\ \A p \in Procs : TaskStart(p, TRUE) => kernel' = "live"]_vars

\* C12, as amended: a call that fails with SpawnFailed leaves no handle
\* behind, and while there is no handle a kernel_start or a lazy start whose
\* launch succeeds leaves a live worker.  A handle whose worker has exited
\* stays as it is: kernel_start returns ok without starting anything, the
\* lazy start passes it by, and the request written next fails with IoError.
C12_OnlySpawnFailureRecovers ==
    [][/\ (ret' # ret /\ ret'.err = "SpawnFailed") => kernel' = "absent"
       /\ kernel = "absent" =>
             /\ (KernelStart(TRUE) /\ ~kernelPoisoned) => kernel' = "live"
             /\ \A p \in Procs : TaskStart(p, TRUE) => kernel' = "live"
       /\ kernel = "dead" =>
             /\ kernel' = "dead"
             /\ \A started \in BOOLEAN :
                   (KernelStart(started) /\ ~kernelPoisoned) =>
                      ret' = Returned("kernel_start", <<>>, Ok(JNull))
             /\ \A p \in Procs, started \in BOOLEAN :
                   TaskStart(p, started) => procs'[p].pc = "ready"
             /\ \A p \in Procs :
                   TaskWrite(p) =>
                      /\ ret' = Returned(procs[p].op, ArgOf(procs[p]), Err("IoError"))
                      /\ pipe' = pipe]_vars

\* A call failed with IoError on a worker that has exited, and the closure of
\* the next call has passed the lazy start and is about to write.
C12_Witness ==
    /\ ret.err = "IoError"
    /\ kernel = "dead"
    /\ pipe = {}
    /\ \E p \in Procs : procs[p].pc = "ready"

----------------------------------------------------------------------------
(* C13 *)

\* C13: the session_id of a SessionInfo is never the whole token, for every
\* token the store holds: not in what validate_session produces, not in what
\* auth_get_session returns, and not in the __session that kernel_request
\* writes to the worker.
C13_SessionIdNeverFullToken ==
    /\ \A t \in DOMAIN sessions :
          ValidateSession(sessions, t) # <<>> =>
             ValidateSession(sessions, t)[1].session_id # t
    /\ (ret.op = "auth_get_session" /\ ret.ok) =>
          ret.val.obj["session_id"].str # ret.arg
    /\ \A r \in pipe :
          procs[r.by].op = "kernel_request" =>
             r.params.obj["__session"].obj["session_id"].str # procs[r.by].token

----------------------------------------------------------------------------
(* C14 *)

\* The first n characters of s (all of s when it has fewer)
Prefix(s, n) == [i \in 1..(IF Len(s) < n THEN Len(s) ELSE n) |-> s[i]]

\* The object {username: u, session_id: the first 16 characters of t}
SessionField(u, t) ==
    JObj([username |-> JStr(u), session_id |-> JStr(Prefix(t, SessionIdLen))])

\* The value out is an object that holds the caller's params par and the
\* __session field sf as the claim says.
Forwards(out, par, sf) ==
    /\ out.kind = "object"
    /\ "__session" \in DOMAIN out.obj
    /\ out.obj["__session"] = sf
    /\ IF par.kind = "object"
       THEN /\ DOMAIN out.obj = (DOMAIN par.obj) \cup {"__session"}
            /\ \A f \in (DOMAIN par.obj) \ {"__session"} : out.obj[f] = par.obj[f]
       ELSE IF par.kind = "null"
       THEN DOMAIN out.obj = {"__session"}
       ELSE /\ DOMAIN out.obj = {"value", "__session"}
            /\ out.obj["value"] = par

\* C14: a kernel_request whose token resolves goes on with the caller's
\* params and the session of the token; the params it hands to the bridge are
\* the object the claim describes, with __session = {username of the session
\* found at validation, session_id = first 16 characters of the token}; and
\* what is written to the worker is exactly these params under the method of
\* the call.
C14_ForwardedParams ==
    [][\A p \in Procs :
          /\ \A t \in Tokens, m \in Methods, par \in Params :
                (KernelRequestCall(p, t, m, par) /\ procs'[p].pc = "validated") =>
                   /\ procs'[p].params = par /\ procs'[p].token = t /\ procs'[p].method = m
                   /\ procs'[p].info = << [username |-> sessions[t].username,
                                           session_id |-> Prefix(t, SessionIdLen)] >>
          /\ (procs[p].op = "kernel_request" /\ procs[p].pc = "validated"
                 /\ procs'[p] # procs[p]) =>
                /\ procs'[p].pc = "spawned"
                /\ Forwards(procs'[p].params, procs[p].params,
                            SessionField(procs[p].info[1].username, procs[p].token))
                /\ procs'[p].method = procs[p].method
          /\ (procs[p].op = "kernel_request"
                 /\ procs[p].pc \in {"spawned", "locked", "ready", "inflight"}
                 /\ procs'[p].pc # "idle") =>
                procs'[p].params = procs[p].params /\ procs'[p].method = procs[p].method
          /\ \A r \in pipe' \ pipe :
                r.by = p => r.params = procs[p].params /\ r.method = procs[p].method]_vars

\* A request is written to the worker whose params hold the caller's field y
\* and, in the place of the __session the caller sent, the username of the
\* session and the first 16 characters of a longer token.
C14_Witness ==
    \E r \in pipe :
        /\ r.method = "echo"
        /\ DOMAIN r.params.obj = {"y", "__session"}
        /\ r.params.obj["__session"] = SessionField(<<98>>, procs[r.by].token)
        /\ Len(procs[r.by].token) > SessionIdLen
        /\ Len(r.params.obj["__session"].obj["session_id"].str) = SessionIdLen

----------------------------------------------------------------------------
(* C15 *)

\* C15: every stored session has created_at <= last_activity <= the present
\* time.  In every step that is not the return of an auth_login, a session
\* that is stored before and after keeps its token, username and created_at,
\* and its last_activity does not decrease; a login that returns on the token
\* of a stored session puts a new session in its place, whose last_activity
\* is not less either.
C15_ActivityMonotone ==
    [][/\ \A t \in DOMAIN sessions' :
             /\ sessions'[t].created_at <= sessions'[t].last_activity
             /\ sessions'[t].last_activity <= now'
       /\ \A t \in (DOMAIN sessions) \cap (DOMAIN sessions') :
             /\ sessions'[t].last_activity >= sessions[t].last_activity
             /\ (\A p \in Procs : ~LoginReturnsToken(p, t)) =>
                   /\ sessions'[t].created_at = sessions[t].created_at
                   /\ sessions'[t].username = sessions[t].username
                   /\ sessions'[t].token = sessions[t].token]_vars

\* auth_refresh has returned ok on a session created earlier while one
\* kernel_request on the same token has refreshed it and another is still
\* to refresh it.
C15_Witness ==
    /\ ret = Returned("auth_refresh", ret.arg, Ok(JNull))
    /\ Present(ret.arg)
    /\ sessions[ret.arg].created_at < sessions[ret.arg].last_activity
    /\ \E p, q \in Procs :
          /\ procs[p].op = "kernel_request" /\ procs[p].token = ret.arg
          /\ procs[p].pc = "spawned"
          /\ procs[q].op = "kernel_request" /\ procs[q].token = ret.arg
          /\ procs[q].pc = "validated"

----------------------------------------------------------------------------
(* C16 *)

\* What a command returns when the lock it needs is poisoned.
LockPoisoned == Err("lock poisoned")

\* The command of p, at the position pc, returns res in this step.
ReturnsAt(p, pc, res) ==
    (procs[p].pc = pc /\ procs'[p] # procs[p]) =>
       /\ ret' = Returned(procs[p].op, ArgOf(procs[p]), res)
       /\ procs'[p] = Idle

\* C16: a poisoned lock stays poisoned.  While the SessionStore lock is
\* poisoned, auth_logout, auth_validate, auth_refresh, auth_get_session and
\* kernel_request (at its validation and at its refresh) return "lock
\* poisoned", and so does an auth_login that has a session to store; the
\* store is not changed.  While the Worker Handle lock is poisoned,
\* kernel_start and the closures of auth_login and kernel_request return
\* "lock poisoned"; nobody holds the lock, no worker is started and nothing
\* is written.  With only the Worker Handle lock poisoned the session
\* commands and the validation of kernel_request answer as ever; with only
\* the SessionStore lock poisoned kernel_start starts the worker, closures
\* take the worker lock, and a login that is refused returns the refusal.
C16_PoisonedLockReported ==
    [][/\ kernelPoisoned => kernelPoisoned'
       /\ storePoisoned => storePoisoned'
       /\ storePoisoned =>
             /\ sessions' = sessions
             /\ \A t \in Tokens :
                   /\ AuthLogout(t) =>
                         ret' = Returned("auth_logout", t, LockPoisoned) /\ OnlyReturns
                   /\ AuthValidate(t) =>
                         ret' = Returned("auth_validate", t, LockPoisoned) /\ OnlyReturns
                   /\ AuthRefresh(t) =>
                         ret' = Returned("auth_refresh", t, LockPoisoned) /\ OnlyReturns
                   /\ AuthGetSession(t) =>
                         ret' = Returned("auth_get_session", t, LockPoisoned) /\ OnlyReturns
                   /\ \A p \in Procs, m \in Methods, par \in Params :
                         KernelRequestCall(p, t, m, par) =>
                            ret' = Returned("kernel_request", t, LockPoisoned) /\ OnlyReturns
             /\ \A p \in Procs :
                   /\ ReturnsAt(p, "validated", LockPoisoned)
                   /\ (LoginReturns(p) /\ \E t \in Tokens, u \in Users :
                                             procs[p].reply = SuccessValue(t, u)) =>
                         ret' = Returned("auth_login", ArgOf(procs[p]), LockPoisoned)
       /\ kernelPoisoned =>
             /\ lockHolder = <<>>
             /\ UNCHANGED <<kernel, lockHolder, pipe>>
             /\ \A started \in BOOLEAN :
                   KernelStart(started) =>
                      ret' = Returned("kernel_start", <<>>, LockPoisoned) /\ OnlyReturns
             /\ \A p \in Procs : ReturnsAt(p, "spawned", LockPoisoned)
       /\ (kernelPoisoned /\ ~storePoisoned) =>
             \A t \in Tokens :
                /\ AuthValidate(t) =>
                      ret' = Returned("auth_validate", t, Ok(JBool(Resolves(t))))
                /\ (AuthRefresh(t) /\ Resolves(t)) =>
                      /\ ret' = Returned("auth_refresh", t, Ok(JNull))
                      /\ sessions'[t].last_activity = now
                /\ (AuthLogout(t) /\ Present(t)) =>
                      ret' = Returned("auth_logout", t, Ok(JNull)) /\ ~Present(t)'
                /\ (AuthGetSession(t) /\ Resolves(t)) =>
                      ret' = Returned("auth_get_session", t,
                                      Ok(SerializeSessionInfo(ValidateSession(sessions, t)[1])))
                /\ \A p \in Procs, m \in Methods, par \in Params :
                      (KernelRequestCall(p, t, m, par) /\ Resolves(t)) =>
                         procs'[p].pc = "validated"
       /\ (storePoisoned /\ ~kernelPoisoned) =>
             /\ (KernelStart(TRUE) /\ kernel = "absent") =>
                   kernel' = "live" /\ ret' = Returned("kernel_start", <<>>, Ok(JNull))
             /\ \A p \in Procs :
                   /\ TaskLock(p) => procs'[p].pc = "locked" /\ lockHolder' = <<p>>
                   /\ (LoginReturns(p) /\ AuthParses(procs[p].reply) /\ ~SuccessAnswer(p)) =>
                         ret' = Returned("auth_login", ArgOf(procs[p]), Ok(procs[p].reply))]_vars

\* With the Worker Handle lock poisoned and the SessionStore lock sound,
\* kernel_start has returned "lock poisoned" and then a kernel_request has
\* passed its validation.
C16_Witness ==
    /\ kernelPoisoned /\ ~storePoisoned
    /\ ret = Returned("kernel_start", <<>>, LockPoisoned)
    /\ procs["p1"].op = "kernel_request"
    /\ procs["p1"].pc = "validated"

----------------------------------------------------------------------------
(* C17 *)

\* The step takes the SessionStore lock for the command of p: the validation
\* or the refresh of a kernel_request, or the end of an auth_login.
TakesStoreLock(p) ==
    \/ /\ procs[p].pc = "idle"
       /\ procs'[p].pc = "validated" \/ ret'.op = "kernel_request"
       /\ \E t \in Tokens, m \in Methods, par \in Params : KernelRequestCall(p, t, m, par)
    \/ procs[p].pc \in {"validated", "joined"} /\ procs'[p] # procs[p]

\* A session command returns in the step.
SessionCommandReturns ==
    /\ ret'.op \in {"auth_logout", "auth_validate", "auth_refresh", "auth_get_session"}
    /\ \E t \in Tokens :
          AuthLogout(t) \/ AuthValidate(t) \/ AuthRefresh(t) \/ AuthGetSession(t)

\* While some closure holds the Worker Handle lock (a worker call that does
\* not return keeps it so), each session command and the validation of a
\* kernel_request by an idle caller can take its step.
SessionSideNotBlocked ==
    lockHolder # <<>> =>
       \A t \in Tokens :
          /\ ENABLED AuthValidate(t)
          /\ ENABLED AuthRefresh(t)
          /\ ENABLED AuthLogout(t)
          /\ ENABLED AuthGetSession(t)
          /\ \A p \in Procs :
                procs[p].pc = "idle" =>
                   ENABLED KernelRequestCall(p, t, "echo", JNull)

\* C17: the holder of the Worker Handle lock takes no step that needs the
\* SessionStore lock, and while it holds the lock the store does not change
\* by it; a step under the SessionStore lock neither takes, waits for nor
\* releases the Worker Handle lock; and while the Worker Handle lock is held
\* the session commands and the validation of kernel_request are not blocked
\* and return in the one step they take.
C17_LocksIndependent ==
    /\ []SessionSideNotBlocked
    /\ [][/\ \A p \in Procs :
                /\ lockHolder = <<p>> =>
                      /\ procs[p].pc \in {"locked", "ready", "inflight"}
                      /\ ~TakesStoreLock(p)
                      /\ procs'[p] # procs[p] => sessions' = sessions
                /\ TakesStoreLock(p) => WorkerUntouched
          /\ SessionCommandReturns => WorkerUntouched /\ procs' = procs
          /\ sessions' # sessions =>
                \/ SessionCommandReturns \/ ret'.op = "cleanup_expired"
                \/ \E p \in Procs : TakesStoreLock(p) /\ lockHolder # <<p>>]_vars

\* auth_refresh has returned ok while a request is written to the worker and
\* not answered, its closure holding the Worker Handle lock.
C17_Witness ==
    /\ ret = Returned("auth_refresh", ret.arg, Ok(JNull))
    /\ Present(ret.arg)
    /\ sessions[ret.arg].last_activity = now
    /\ \E p \in Procs :
          /\ lockHolder = <<p>> /\ procs[p].pc = "inflight"
          /\ procs[p].op = "kernel_request"
          /\ procs[p].token = ret.arg
          /\ now > sessions[ret.arg].created_at

----------------------------------------------------------------------------
(* C18 *)

\* The step is one of a closure that spawn_blocking runs on a background
\* thread; every other step of a command is on the context that invoked it.
BackgroundStep ==
    \E p \in Procs :
        /\ procs[p].pc \in {"spawned", "locked", "ready", "inflight"}
        /\ procs'[p] # procs[p]

\* The step starts the worker, or fails to, or writes a request to it.
BridgeOperation ==
    \/ kernel = "absent" /\ kernel' = "live"
    \/ ret' # ret /\ ret'.err = "SpawnFailed"
    \/ pipe' \ pipe # {}

\* C18: every step that starts the worker or writes a request to it is a
\* step of a closure on a background thread, and no command waits for the
\* Worker Handle lock on the context that invoked it: while a closure holds
\* the lock, kernel_start can still take its step.
C18_BridgeOnBackground ==
    [][/\ BridgeOperation => BackgroundStep
       /\ lockHolder # <<>> => ENABLED KernelCmds]_vars

----------------------------------------------------------------------------
(* C19 *)

\* The kernel_request of p is written to the worker in this step.
RequestWritten(p) ==
    /\ procs[p].op = "kernel_request"
    /\ \E r \in pipe' \ pipe : r.by = p

\* C19: when a kernel_request is written to the worker, the token it was
\* validated with is present in the store and not expired.
C19_SessionLiveAtDispatch ==
    [][\A p \in Procs : RequestWritten(p) => Resolves(procs[p].token)]_vars

----------------------------------------------------------------------------
(* C20 *)

\* The outcome is an AuthResult whose success is true.
ReturnsSuccess(r) ==
    /\ r.op = "auth_login" /\ r.ok
    /\ r.val.kind = "object"
    /\ "success" \in DOMAIN r.val.obj
    /\ r.val.obj["success"] = JBool(TRUE)

\* C20: when auth_login returns an AuthResult with success = true, the store
\* holds a session inserted by that return: one created at the present time.
C20_SuccessMeansSession ==
    [][\A p \in Procs :
          (LoginReturns(p) /\ ReturnsSuccess(ret')) =>
             \E t \in DOMAIN sessions' :
                /\ sessions'[t].created_at = now'
                /\ sessions'[t].last_activity = now']_vars

====
